---- MODULE Spec2Model ----
(***************************************************************************)
(* A model of @zensors/sheriff (src/src/index.ts): the marshaller data     *)
(* model built by the M namespace, the MarshalError record, and the        *)
(* recursive function marshal(obj, description, name, path).               *)
(*                                                                         *)
(* marshal is a pure, synchronous function, so the state machine draws its *)
(* arguments in Init and applies the function in one action.  JavaScript   *)
(* values are records tagged by t; marshallers are records tagged by kind, *)
(* exactly as in the source.  An outcome is a normal return or a thrown    *)
(* error, together with the log of custom validation function calls.       *)
(***************************************************************************)
EXTENDS Integers, Sequences, FiniteSets, TLC

VARIABLES
    obj,          \* first argument of marshal: the value under validation
    description,  \* second argument: the marshaller
    nameArg,      \* third argument as passed by the caller (NotSupplied or a string)
    pathArg,      \* fourth argument as passed by the caller (NotSupplied or steps)
    pc,           \* "ready" before the call, "done" after it, "again" after a repeat;
                  \* "generating" and "validated" while the function given to M.rec runs
    result,       \* the outcome of the latest call (NoResult before it)
    previous,     \* the outcome of the call before the latest one
    generator,    \* the function f given to M.rec (NoGenerator outside M.rec)
    selfWrites,   \* how many times M.rec has assigned to parent.self
    stack         \* the calls of marshal under way, outermost first, when the call
                  \* is followed one nested call at a time (empty otherwise)

vars ==
    <<obj, description, nameArg, pathArg, pc, result, previous, generator, selfWrites,
      stack>>

(***************************************************************************)
(* JavaScript values.                                                      *)
(***************************************************************************)
Undef == [t |-> "undefined"]
Null == [t |-> "null"]
BoolV(b) == [t |-> "boolean", b |-> b]
NumV(n) == [t |-> "number", n |-> n]
StrV(s) == [t |-> "string", s |-> s]
\* A built-in function value, as found on Object.prototype.
FunV(f) == [t |-> "function", f |-> f]
\* A dense array.
ArrV(elems) == [t |-> "array", elems |-> elems]

\* The three prototypes an object value of the model may have: the plain base
\* prototype, none (Object.create(null)), and an array instance ({ __proto__: [] }).
ProtoPlain == "Object.prototype"
ProtoNull == "null"
ProtoArray == "[]"

\* An object: its prototype and its own enumerable properties in insertion order.
\* An own property named "__proto__" is what JSON.parse creates for that key.
Prop(k, v) == [key |-> k, val |-> v]
ObjV(proto, own) == [t |-> "object", proto |-> proto, own |-> own]
PlainObj(own) == ObjV(ProtoPlain, own)

\* The property names every object with a non-null prototype chain inherits from
\* Object.prototype ("__proto__" is the accessor among them).
InheritedFunctionKeys ==
    {"constructor", "toString", "toLocaleString", "valueOf", "hasOwnProperty",
     "isPrototypeOf", "propertyIsEnumerable"}
InheritedKeys == InheritedFunctionKeys \cup {"__proto__"}

\* Object.prototype itself, as read through the inherited __proto__ accessor.
ObjectPrototype == [t |-> "object", proto |-> ProtoNull, own |-> <<>>, base |-> TRUE]

\* typeof v
TypeOf(v) ==
    IF v.t \in {"null", "object", "array"} THEN "object" ELSE v.t

\* Array.isArray(v)
IsArray(v) == v.t = "array"

\* Object.keys(o): the own enumerable keys, in order.
OwnKeys(o) == [i \in 1..Len(o.own) |-> o.own[i].key]

HasOwn(o, k) == \E i \in 1..Len(o.own) : o.own[i].key = k

OwnValue(o, k) ==
    o.own[CHOOSE i \in 1..Len(o.own) : o.own[i].key = k].val

\* k in v, for a non-null value v whose typeof is "object".
HasProperty(v, k) ==
    IF IsArray(v) THEN k \in InheritedKeys
    ELSE IF v = ObjectPrototype THEN k \in InheritedKeys
    ELSE HasOwn(v, k) \/ (v.proto # ProtoNull /\ k \in InheritedKeys)

\* o[k] for an object o: own properties first, then the prototype chain.
Get(o, k) ==
    IF HasOwn(o, k) THEN OwnValue(o, k)
    ELSE IF o = ObjectPrototype THEN
        (IF k \in InheritedFunctionKeys THEN FunV(k)
         ELSE IF k = "__proto__" THEN Null ELSE Undef)
    ELSE IF o.proto = ProtoNull THEN Undef
    ELSE IF k \in InheritedFunctionKeys THEN FunV(k)
    ELSE IF k = "__proto__" THEN
        (IF o.proto = ProtoPlain THEN ObjectPrototype ELSE ArrV(<<>>))
    ELSE Undef

\* v.__proto__ !== Object.prototype, for a value v with "__proto__" in v.
ProtoDiffers(v) ==
    IF IsArray(v) THEN TRUE
    ELSE IF HasOwn(v, "__proto__") THEN TRUE
    ELSE v.proto # ProtoPlain

\* a === b where b is a primitive (the payload of a literal marshaller).
StrictEquals(a, b) ==
    /\ a.t = b.t
    /\ CASE a.t = "boolean" -> a.b = b.b
         [] a.t = "number" -> a.n = b.n
         [] a.t = "string" -> a.s = b.s
         [] a.t \in {"undefined", "null"} -> TRUE
         [] OTHER -> FALSE

Digit(d) ==
    CASE d = 0 -> "0" [] d = 1 -> "1" [] d = 2 -> "2" [] d = 3 -> "3" [] d = 4 -> "4"
      [] d = 5 -> "5" [] d = 6 -> "6" [] d = 7 -> "7" [] d = 8 -> "8" [] d = 9 -> "9"

RECURSIVE NatToString(_)
NatToString(n) ==
    IF n < 10 THEN Digit(n) ELSE NatToString(n \div 10) \o Digit(n % 10)

\* String(n) for an integer n.
NumToString(n) == IF n < 0 THEN "-" \o NatToString(0 - n) ELSE NatToString(n)

\* Whether `${v}` throws a TypeError: an object with no callable toString/valueOf
\* that yields a primitive (no prototype, or an own data property named toString
\* shadowing the inherited method while valueOf returns the object itself).
RECURSIVE ToStringThrows(_)
ToStringThrows(v) ==
    CASE v.t = "object" ->
            \/ v.proto = ProtoNull
            \/ HasOwn(v, "toString")
      [] v.t = "array" ->
            \E i \in 1..Len(v.elems) :
                v.elems[i].t \notin {"undefined", "null"} /\ ToStringThrows(v.elems[i])
      [] OTHER -> FALSE

\* `${v}` when it does not throw.
RECURSIVE ToStringJS(_), JoinFrom(_, _, _)
ToStringJS(v) ==
    CASE v.t = "undefined" -> "undefined"
      [] v.t = "null" -> "null"
      [] v.t = "boolean" -> (IF v.b THEN "true" ELSE "false")
      [] v.t = "number" -> NumToString(v.n)
      [] v.t = "string" -> v.s
      [] v.t = "function" -> "function " \o v.f \o "() { [native code] }"
      [] v.t = "array" -> JoinFrom(v.elems, ",", 1)
      [] v.t = "object" -> (IF v.proto = ProtoArray THEN "" ELSE "[object Object]")

\* elems.join(sep), from index i on: undefined and null elements render as "".
JoinFrom(elems, sep, i) ==
    IF i > Len(elems) THEN ""
    ELSE (IF elems[i].t \in {"undefined", "null"} THEN "" ELSE ToStringJS(elems[i]))
         \o (IF i < Len(elems) THEN sep ELSE "")
         \o JoinFrom(elems, sep, i + 1)

Join(elems, sep) == JoinFrom(elems, sep, 1)

(***************************************************************************)
(* Paths and errors.                                                       *)
(***************************************************************************)
\* A path step is a string (a field name) or a number (an index).
KeyStep(k) == [isKey |-> TRUE, key |-> k, idx |-> 0]
IdxStep(i) == [isKey |-> FALSE, key |-> "", idx |-> i]

RECURSIVE pathReduce(_, _, _)
pathReduce(agg, path, i) ==
    IF i > Len(path) THEN agg
    ELSE pathReduce(
            IF path[i].isKey THEN agg \o "." \o path[i].key
            ELSE agg \o "[" \o NumToString(path[i].idx) \o "]",
            path, i + 1)

\* A rendering that writes every step as ".step".
RECURSIVE pathDotted(_, _, _)
pathDotted(agg, path, i) ==
    IF i > Len(path) THEN agg
    ELSE pathDotted(
            IF path[i].isKey THEN agg \o "." \o path[i].key
            ELSE agg \o "." \o NumToString(path[i].idx),
            path, i + 1)

pathStringifyDotted(name, path) == pathDotted(name, path, 1)

pathStringify(name, path) == pathReduce(name, path, 1)

\* A MarshalError that takes the default root name whatever name it is given.
MarshalErrorNamedInput(name, path, info, rule) ==
    [class |-> "MarshalError",
     message |-> "[At " \o pathStringify("INPUT", path) \o "]: " \o info,
     name |-> "INPUT", path |-> path, info |-> info, rule |-> rule,
     infoType |-> "string"]

\* new MarshalError(name, path, info, rule) for a string info.  infoType is
\* typeof info: the custom case can pass an info that is undefined, which the
\* template literal of the constructor renders as "undefined".
MarshalError(name, path, info, rule) ==
    [class |-> "MarshalError",
     message |-> "[At " \o pathStringify(name, path) \o "]: " \o info,
     name |-> name, path |-> path, info |-> info, rule |-> rule,
     infoType |-> "string"]

\* new MarshalError(name, path, undefined, rule)
MarshalErrorWithoutInfo(name, path, rule) ==
    [MarshalError(name, path, "undefined", rule) EXCEPT !.infoType = "undefined"]

\* new Error(message) and a TypeError raised by the runtime.
PlainError(class, message) ==
    [class |-> class, message |-> message,
     name |-> class, path |-> <<>>, info |-> "", rule |-> "", infoType |-> "none"]

NoError == PlainError("none", "")

\* An outcome: what was thrown, if anything, and the custom function calls made.
Return(calls) == [threw |-> FALSE, error |-> NoError, calls |-> calls]
Throw(e, calls) == [threw |-> TRUE, error |-> e, calls |-> calls]
After(calls, r) == [r EXCEPT !.calls = calls \o @]

(***************************************************************************)
(* Marshallers (the Marshaller<T> union and the M builders).               *)
(***************************************************************************)
lit(value) == [kind |-> "literal", value |-> value]
bool == [kind |-> "boolean"]
num == [kind |-> "number"]
str == [kind |-> "string"]
\* An optional that lets null through as well.
optNullable(type) ==
    [kind |-> "optional",
     type |-> [kind |-> "union", types |-> <<type, [kind |-> "literal", value |-> Null]>>]]

opt(type) == [kind |-> "optional", type |-> type]
\* fields: the declared fields in insertion order, each [key, type].
Field(k, type) == [key |-> k, type |-> type]
objM(fields) == [kind |-> "object", fields |-> fields]
arr(type) == [kind |-> "array", type |-> type]
tup(types) == [kind |-> "tuple", fields |-> types]
union(types) == [kind |-> "union", types |-> types]
any == [kind |-> "any"]
unk == [kind |-> "unknown"]
custom(type, fn) == [kind |-> "custom", type |-> type, fn |-> fn]
record(type) == [kind |-> "record", type |-> type]
witness(type) == [kind |-> "witness", type |-> type]
nul == lit(Null)
undef == lit(Undef)

\* Validation functions, by behaviour: return undefined, return another value,
\* or throw new Error(message).
FnReturns(name, value) == [name |-> name, does |-> "return", value |-> value, message |-> ""]
FnThrows(name, message) == [name |-> name, does |-> "throw", value |-> Undef, message |-> message]
\* throw value, for a value that is not an Error: a primitive, null, undefined
\* or a plain object.
FnThrowsValue(name, value) ==
    [name |-> name, does |-> "throwValue", value |-> value, message |-> ""]

\* M.rec(f): the placeholder { kind: "recursive", self } is identified by id, and
\* its back-patched self reference is looked up in SelfOf, which stands for the
\* generator functions f the model knows.
rec(id) == [kind |-> "recursive", id |-> id]

\* description.self of a placeholder that has not been linked: undefined.
NoDescription == [kind |-> "undefined"]

SelfOf(id) ==
    CASE id = "pending" -> NoDescription
      [] id = "num" -> num
      [] id = "str" -> str
      [] id = "litfoo" -> lit(StrV("foo"))
      [] id = "chain" -> objM(<<Field("__proto__", opt(rec("chain")))>>)
      [] id = "tree" ->
            objM(<<Field("value", num),
                   Field("left", opt(rec("tree"))),
                   Field("right", opt(rec("tree")))>>)
      [] id = "list" ->
            union(<<objM(<<Field("kind", lit(StrV("nil")))>>),
                    objM(<<Field("kind", lit(StrV("cons"))),
                           Field("head", tup(<<num, str>>)),
                           Field("tail", witness(custom(rec("list"), FnReturns("ok", Undef)))),
                           Field("tags", opt(record(arr(num))))>>)>>)

\* Keys of description.fields, in insertion order (Object.keys).
FieldKeys(fields) == [i \in 1..Len(fields) |-> fields[i].key]

Declares(fields, k) == \E i \in 1..Len(fields) : fields[i].key = k

\* description.fields[k] for a declared key k.
FieldType(fields, k) ==
    fields[CHOOSE i \in 1..Len(fields) : fields[i].key = k].type

\* k in description.fields: fields is a plain object literal, so the names it
\* inherits from Object.prototype are "in" it as well.
InFields(fields, k) == Declares(fields, k) \/ k \in InheritedKeys

getUnionOrder(m) ==
    IF m.kind # "literal" THEN 1
    ELSE IF StrictEquals(m.value, StrV("kind")) THEN -1
    ELSE 0

\* The sorted keys cut down to the first one.
SortedKeysFirstOnly(fields) ==
    LET keys == FieldKeys(fields)
        Weight(k) == getUnionOrder(FieldType(fields, k))
        W(w) == SelectSeq(keys, LAMBDA k : Weight(k) = w)
        sorted == W(-1) \o W(0) \o W(1)
    IN  IF sorted = <<>> THEN <<>> ELSE <<sorted[1]>>

\* Object.keys(description.fields).sort(by getUnionOrder): the sort is stable, so
\* the keys of each weight keep their insertion order.
SortedKeys(fields) ==
    LET keys == FieldKeys(fields)
        Weight(k) == getUnionOrder(FieldType(fields, k))
        W(w) == SelectSeq(keys, LAMBDA k : Weight(k) = w)
    IN W(-1) \o W(0) \o W(1)

(***************************************************************************)
(* marshal(obj, description, name, path).                                  *)
(***************************************************************************)
TypeErrorThrown ==
    Throw(PlainError("TypeError", "Cannot convert object to primitive value"), <<>>)

\* fn(obj) inside the try block of the custom case, and what the catch block
\* does with a failure: a returned value other than undefined makes fail() throw
\* a MarshalError inside the try block, which the catch block receives like any
\* error thrown by fn and wraps again using its message.
\* The custom check reporting at the root path instead of the current one.
customCheckAtRoot(o, d, name, path) ==
    LET call == <<[fn |-> d.fn.name, arg |-> o]>>
        caught(message) == Throw(MarshalError(name, <<>>, message, d.kind), call)
    IN  IF d.fn.does = "throw" THEN caught(d.fn.message)
        ELSE IF d.fn.value # Undef THEN
            caught(MarshalError(name, <<>>,
                       "Custom validation function unexpectedly returned a value",
                       d.kind).message)
        ELSE Return(call)

customCheck(o, d, name, path) ==
    LET call == <<[fn |-> d.fn.name, arg |-> o]>>
        caught(message) == Throw(MarshalError(name, path, message, d.kind), call)
        thrown == d.fn.value
        \* error.message in the catch block, for a thrown value that is not an Error
        messageOf(e) == IF e.t = "object" THEN Get(e, "message") ELSE Undef
    IN  IF d.fn.does = "throw" THEN caught(d.fn.message)
        ELSE IF d.fn.does = "throwValue" THEN
            IF thrown \in {Null, Undef} THEN
                Throw(PlainError("TypeError",
                        "Cannot read properties of " \o thrown.t \o " (reading 'message')"),
                      call)
            ELSE IF messageOf(thrown).t = "string" THEN caught(messageOf(thrown).s)
            ELSE Throw(MarshalErrorWithoutInfo(name, path, d.kind), call)
        ELSE IF d.fn.value # Undef THEN
            caught(MarshalError(name, path,
                       "Custom validation function unexpectedly returned a value",
                       d.kind).message)
        ELSE Return(call)

\* The heuristic without the loop that raises a collected error again.
RethrowIndexNone(errors, path) == 0

\* The re-raise test with "and" in place of "or".
RethrowIndexBoth(errors, path) ==
    LET hits == {i \in 1..Len(errors) :
                    errors[i].rule # "literal" /\ Len(errors[i].path) # Len(path) + 1}
    IN  IF hits = {} THEN 0 ELSE CHOOSE i \in hits : \A j \in hits : i <= j

\* The first collected error the discriminated-union heuristic re-raises, if any.
RethrowIndex(errors, path) ==
    LET hits == {i \in 1..Len(errors) :
                    errors[i].rule # "literal" \/ Len(errors[i].path) # Len(path) + 1}
    IN  IF hits = {} THEN 0 ELSE CHOOSE i \in hits : \A j \in hits : i <= j

\* discriminatorValues without the test that the kind field is a literal: the
\* value read from a marshaller of another kind is undefined.
discriminatorValuesOfAnyKindField(types) ==
    LET hasKind(type) == type.kind = "object" /\ InFields(type.fields, "kind")
        picked == SelectSeq(types, hasKind)
        valueOf(m) == IF m.kind = "literal" THEN m.value ELSE Undef
    IN  [i \in 1..Len(picked) |-> valueOf(FieldType(picked[i].fields, "kind"))]

\* discriminatorValues that stops at the first discriminator found.
discriminatorValuesFirstOnly(types) ==
    LET isDisc(type) ==
            /\ type.kind = "object"
            /\ InFields(type.fields, "kind")
            /\ FieldType(type.fields, "kind").kind = "literal"
        picked == SelectSeq(types, isDisc)
    IN  IF picked = <<>> THEN <<>> ELSE <<FieldType(picked[1].fields, "kind").value>>

\* The literal values of the "kind" fields of the object alternatives, in order.
discriminatorValues(types) ==
    LET isDisc(type) ==
            /\ type.kind = "object"
            /\ InFields(type.fields, "kind")
            /\ FieldType(type.fields, "kind").kind = "literal"
        picked == SelectSeq(types, isDisc)
    IN  [i \in 1..Len(picked) |-> FieldType(picked[i].fields, "kind").value]

\* for (let key in obj) if (!(key in description.fields)) ...: the first own key
\* that is not in the fields object, or "" when there is none.
FirstUnexpectedKey(o, fields) ==
    LET keys == OwnKeys(o)
        bad == {i \in 1..Len(keys) : ~InFields(fields, keys[i])}
    IN  IF bad = {} THEN <<>> ELSE <<keys[CHOOSE i \in bad : \A j \in bad : i <= j]>>

\* shapeError without the test of the actual prototype: only an own __proto__
\* key counts as pollution.
shapeErrorOwnKeyOnly(o) ==
    IF TypeOf(o) # "object" THEN <<"Expected object, got " \o TypeOf(o)>>
    ELSE IF o = Null THEN <<"Expected object, got null">>
    ELSE IF IsArray(o) THEN <<"Expected object, got array">>
    ELSE IF HasOwn(o, "__proto__") THEN <<"Encountered prototype pollution">>
    ELSE <<>>

\* The checks that open the object and record cases: the message of the one
\* that fails, or none.
shapeError(o) ==
    IF TypeOf(o) # "object" THEN <<"Expected object, got " \o TypeOf(o)>>
    ELSE IF o = Null THEN <<"Expected object, got null">>
    ELSE IF HasProperty(o, "__proto__") /\ ProtoDiffers(o) THEN
        (IF IsArray(o) THEN <<"Expected object, got array">>
         ELSE <<"Encountered prototype pollution">>)
    ELSE <<>>

\* obj.length === description.fields.length
\* The size test accepting arrays shorter than the tuple.
tupleSizeAtMost(o, d) == Len(o.elems) <= Len(d.fields)

tupleSizeMatches(o, d) == Len(o.elems) = Len(d.fields)

\* What the union case throws once every alternative has failed with the
\* MarshalErrors `errors`.
unionFailure(o, d, errors, name, path) ==
    LET fail(message) == Throw(MarshalError(name, path, message, d.kind), <<>>)
        values == discriminatorValues(d.types)
        again == RethrowIndex(errors, path)
        hasKind == TypeOf(o) = "object" /\ o # Null /\ HasProperty(o, "kind")
    IN  IF Len(values) # 0 THEN
            IF again # 0 THEN Throw(errors[again], <<>>)
            ELSE IF hasKind THEN
                IF ToStringThrows(Get(o, "kind")) THEN TypeErrorThrown
                ELSE fail("Unable to match against union. Found \"kind\" discriminator: ["
                          \o ToStringJS(Get(o, "kind")) \o "], but needed one of ["
                          \o Join(values, " | ") \o "]")
            ELSE fail("Unable to find \"kind\" discriminator. Expecting one of ["
                      \o Join(values, " | ") \o "]")
        ELSE fail("Unable to match against union. Expected one of ["
                  \o Join([i \in 1..Len(d.types) |-> StrV(d.types[i].kind)], " | ")
                  \o "]")

RECURSIVE marshal(_, _, _, _), marshalProps(_, _, _, _, _, _),
          marshalElements(_, _, _, _, _), trySome(_, _, _, _, _)

marshal(o, d, name, path) ==
    LET fail(message) == Throw(MarshalError(name, path, message, d.kind), <<>>)
        assertHere(test, message) == IF test THEN Return(<<>>) ELSE fail(message)
        shape == shapeError(o)
    IN
    CASE d.kind = "literal" ->
            IF ToStringThrows(d.value) \/ ToStringThrows(o) THEN TypeErrorThrown
            ELSE assertHere(StrictEquals(o, d.value),
                    "Expected constant value " \o ToStringJS(d.value)
                        \o ", got " \o ToStringJS(o))
      [] d.kind \in {"boolean", "number", "string"} ->
            assertHere(TypeOf(o) = d.kind,
                "Expected " \o d.kind \o ", got " \o TypeOf(o))
      [] d.kind = "optional" ->
            IF o # Undef THEN marshal(o, d.type, name, path) ELSE Return(<<>>)
      [] d.kind = "object" ->
            IF shape # <<>> THEN fail(shape[1])
            ELSE LET keys == SortedKeys(d.fields)
                     types == [i \in 1..Len(keys) |-> FieldType(d.fields, keys[i])]
                     r == marshalProps(o, keys, types, 1, name, path)
                     unexpected == FirstUnexpectedKey(o, d.fields)
                 IN  IF r.threw THEN r
                     ELSE IF unexpected # <<>> THEN
                         After(r.calls, fail("Found unexpected key: " \o unexpected[1]))
                     ELSE r
      [] d.kind = "array" ->
            IF IsArray(o) THEN
                marshalElements(o.elems, [i \in 1..Len(o.elems) |-> d.type], 1, name, path)
            ELSE fail("Expected array, got " \o TypeOf(o))
      [] d.kind = "tuple" ->
            IF IsArray(o) THEN
                IF tupleSizeMatches(o, d) THEN
                    marshalElements(o.elems, d.fields, 1, name, path)
                ELSE fail("Invalid tuple size: Expected " \o NumToString(Len(d.fields))
                            \o ", got " \o NumToString(Len(o.elems)))
            ELSE fail("Expected tuple, got " \o TypeOf(o))
      [] d.kind = "union" ->
            LET t == trySome(o, d.types, 1, name, path)
            IN  IF t.status = "success" THEN Return(t.calls)
                ELSE IF t.status = "abort" THEN Throw(t.error, t.calls)
                ELSE After(t.calls, unionFailure(o, d, t.errors, name, path))
      [] d.kind = "recursive" -> marshal(o, SelfOf(d.id), name, path)
      [] d.kind \in {"any", "unknown"} -> Return(<<>>)
      [] d.kind = "custom" ->
            LET r == marshal(o, d.type, name, path)
            IN  IF r.threw THEN r ELSE After(r.calls, customCheck(o, d, name, path))
      [] d.kind = "record" ->
            IF shape # <<>> THEN fail(shape[1])
            ELSE LET keys == OwnKeys(o)
                 IN  marshalProps(o, keys, [i \in 1..Len(keys) |-> d.type], 1, name, path)
      [] d.kind = "witness" -> marshal(o, d.type, name, path)
      [] d = NoDescription ->
            \* switch (description.kind) on an undefined description
            Throw(PlainError("TypeError",
                    "Cannot read properties of undefined (reading 'kind')"), <<>>)
      [] OTHER ->
            Throw(PlainError("Error",
                    "Reached unexpected type description \"" \o d.kind \o "\" at "
                    \o pathStringify(name, path)), <<>>)

\* The field loop validating nothing.
marshalPropsSkipped(o, keys, types, i, name, path) == Return(<<>>)

\* The field loop passing the path on without the key.
marshalPropsSamePath(o, keys, types, i, name, path) ==
    IF i > Len(keys) THEN Return(<<>>)
    ELSE LET r == marshal(Get(o, keys[i]), types[i], name, path)
         IN  IF r.threw THEN r
             ELSE After(r.calls, marshalProps(o, keys, types, i + 1, name, path))

\* for (let key of keys) marshal(obj[key], types[key], name, path.concat([key]))
marshalProps(o, keys, types, i, name, path) ==
    IF i > Len(keys) THEN Return(<<>>)
    ELSE LET r == marshal(Get(o, keys[i]), types[i], name, path \o <<KeyStep(keys[i])>>)
         IN  IF r.threw THEN r
             ELSE After(r.calls, marshalProps(o, keys, types, i + 1, name, path))

\* The element loop validating every element before it raises the first error.
marshalElementsBatched(elems, types, i, name, path) ==
    IF i > Len(elems) THEN Return(<<>>)
    ELSE LET r == marshal(elems[i], types[i], name, path \o <<IdxStep(i - 1)>>)
             rest == marshalElements(elems, types, i + 1, name, path)
         IN  IF r.threw THEN [r EXCEPT !.calls = @ \o rest.calls]
             ELSE After(r.calls, rest)

\* obj.forEach((element, idx) => marshal(element, types[idx], name, path.concat([idx])))
marshalElements(elems, types, i, name, path) ==
    IF i > Len(elems) THEN Return(<<>>)
    ELSE LET r == marshal(elems[i], types[i], name, path \o <<IdxStep(i - 1)>>)
         IN  IF r.threw THEN r
             ELSE After(r.calls, marshalElements(elems, types, i + 1, name, path))

\* The loop over the alternatives collecting every error, of whatever class.
trySomeCatchingAll(o, types, i, name, path) ==
    IF i > Len(types) THEN
        [status |-> "failed", errors |-> <<>>, calls |-> <<>>, error |-> NoError]
    ELSE LET r == marshal(o, types[i], name, path)
         IN  IF ~r.threw THEN
                 [status |-> "success", errors |-> <<>>, calls |-> r.calls, error |-> NoError]
             ELSE LET rest == trySome(o, types, i + 1, name, path)
                  IN  [rest EXCEPT !.errors = <<r.error>> \o @, !.calls = r.calls \o @]

\* The loop over the alternatives going on after one of them has returned.
trySomeExhaustive(o, types, i, name, path) ==
    IF i > Len(types) THEN
        [status |-> "failed", errors |-> <<>>, calls |-> <<>>, error |-> NoError]
    ELSE LET r == marshal(o, types[i], name, path)
             rest == trySome(o, types, i + 1, name, path)
         IN  IF ~r.threw THEN
                 [status |-> IF rest.status = "abort" THEN "abort" ELSE "success",
                  errors |-> <<>>, calls |-> r.calls \o rest.calls, error |-> rest.error]
             ELSE IF r.error.class # "MarshalError" THEN
                 [status |-> "abort", errors |-> <<>>, calls |-> r.calls, error |-> r.error]
             ELSE [rest EXCEPT !.errors = <<r.error>> \o @, !.calls = r.calls \o @]

\* description.types.some(...): stops at the first alternative that returns,
\* collects the MarshalErrors of those that fail, lets any other error through.
trySome(o, types, i, name, path) ==
    IF i > Len(types) THEN
        [status |-> "failed", errors |-> <<>>, calls |-> <<>>, error |-> NoError]
    ELSE LET r == marshal(o, types[i], name, path)
         IN  IF ~r.threw THEN
                 [status |-> "success", errors |-> <<>>, calls |-> r.calls, error |-> NoError]
             ELSE IF r.error.class # "MarshalError" THEN
                 [status |-> "abort", errors |-> <<>>, calls |-> r.calls, error |-> r.error]
             ELSE LET rest == trySome(o, types, i + 1, name, path)
                  IN  [rest EXCEPT !.errors = <<r.error>> \o @, !.calls = r.calls \o @]

\* The defaults of marshal's third and fourth parameters.
NotSupplied == [supplied |-> FALSE]
Supplied(v) == [supplied |-> TRUE, v |-> v]
nameOf(arg) == IF arg.supplied THEN arg.v ELSE "INPUT"
pathOf(arg) == IF arg.supplied THEN arg.v ELSE <<>>

(***************************************************************************)
(* The bounded arguments of the modelled calls.                            *)
(***************************************************************************)
\* The longest array value and the most positions of a tuple marshaller.
MaxLen == 2
MaxArity == 2

SeqsUpTo(S, n) == UNION {[1..k -> S] : k \in 0..n}

\* Sequences without repetition over the set S.
DistinctSeqs(S) ==
    {q \in SeqsUpTo(S, Cardinality(S)) : \A i, j \in 1..Len(q) : i # j => q[i] # q[j]}

PrimValues == {Undef, Null, BoolV(TRUE), NumV(1), StrV("foo"), StrV("baz")}

ElementValues == {Undef, NumV(1), StrV("foo")}

ArrayValues == {ArrV(q) : q \in SeqsUpTo(ElementValues, MaxLen)}

\* Own keys of the object values, in the order in which they are inserted, and
\* the values each may hold.
KeyOrder == <<"kind", "foo", "toString", "__proto__">>

ValueKeys == {KeyOrder[i] : i \in 1..Len(KeyOrder)}

ValuesFor(k) ==
    CASE k = "kind" -> {StrV("foo"), StrV("bar"), StrV("baz")}
      [] k = "foo" -> {NumV(1), StrV("foo"), ArrV(<<NumV(1)>>), ArrV(<<StrV("foo")>>)}
      [] k = "toString" -> {StrV("foo")}
      [] k = "__proto__" -> {NumV(1)}

OwnProps(K) ==
    LET keys == SelectSeq(KeyOrder, LAMBDA k : k \in K)
    IN  {[i \in 1..Len(keys) |-> Prop(keys[i], f[keys[i]])] :
            f \in {g \in [K -> UNION {ValuesFor(k) : k \in K}] :
                        \A k \in K : g[k] \in ValuesFor(k)}}

ObjectValues ==
    {ObjV(proto, own) :
        proto \in {ProtoPlain, ProtoNull, ProtoArray},
        own \in UNION {OwnProps(K) : K \in SUBSET ValueKeys}}

Values == PrimValues \cup ArrayValues \cup ObjectValues

\* Validation functions of the custom marshallers.
Functions ==
    {FnReturns("ok", Undef), FnReturns("one", NumV(1)), FnReturns("null", Null),
     FnThrows("bad", "bad value")}

LeafMarshallers ==
    {lit(StrV("foo")), lit(NumV(1)), undef, nul, bool, num, str, any, unk}

TupleMarshallers ==
    {tup(q) : q \in SeqsUpTo({num, str, custom(num, FnReturns("ok", Undef))}, MaxArity)}

\* Marshallers of one level: wrappers, arrays, records, tuples, plain unions.
SimpleMarshallers ==
    LeafMarshallers
    \cup {opt(m) : m \in {num, lit(StrV("foo"))}}
    \cup {arr(m) : m \in {num, opt(str)}}
    \cup {record(m) : m \in {num, str}}
    \cup {witness(m) : m \in {num, record(str)}}
    \cup {rec(id) : id \in {"num", "tree"}}
    \cup TupleMarshallers
    \cup {union(<<num, str>>), union(<<lit(StrV("foo")), arr(num)>>),
          union(<<objM(<<Field("foo", num)>>), objM(<<Field("kind", str)>>)>>)}

\* The declared field names of the object marshallers and the marshallers each
\* may be given.
FieldNames == {"kind", "foo", "toString"}

TypesFor(k) ==
    CASE k = "kind" -> {lit(StrV("foo")), lit(StrV("bar")), str}
      [] k = "foo" -> {num, lit(StrV("foo")), opt(lit(NumV(1))), arr(lit(NumV(1)))}
      [] k = "toString" -> {str}

FieldLists(keys) ==
    {[i \in 1..Len(keys) |-> Field(keys[i], types[i])] :
        types \in {q \in [1..Len(keys) -> UNION {TypesFor(k) : k \in FieldNames}] :
                        \A i \in 1..Len(keys) : q[i] \in TypesFor(keys[i])}}

ObjectMarshallers ==
    {objM(fields) : fields \in UNION {FieldLists(keys) : keys \in DistinctSeqs(FieldNames)}}

\* Object marshallers with a literal "kind" field, and the unions of one of them
\* with a second alternative, in either order.
Discriminated ==
    {m \in ObjectMarshallers :
        Declares(m.fields, "kind") /\ FieldType(m.fields, "kind").kind = "literal"}

barAlternative == objM(<<Field("kind", lit(StrV("bar"))), Field("foo", lit(StrV("foo")))>>)

UnionMarshallers ==
    {union(<<m, barAlternative>>) : m \in Discriminated}
    \cup {union(<<barAlternative, m>>) : m \in Discriminated}
    \cup {union(<<m, num>>) : m \in Discriminated}

CustomMarshallers ==
    {custom(m, fn) : m \in {str, any, objM(<<Field("foo", num)>>)}, fn \in Functions}
    \cup {custom(custom(any, fn1), fn2) :
            fn1 \in {FnReturns("inner", Undef), FnThrows("innerbad", "inner bad")},
            fn2 \in Functions}
    \cup {opt(custom(num, fn)) : fn \in Functions}
    \cup {record(custom(any, FnReturns("ok", Undef))),
          objM(<<Field("foo", custom(any, FnReturns("ok", Undef)))>>)}

Contexts ==
    {[name |-> NotSupplied, path |-> NotSupplied],
     [name |-> Supplied("body"), path |-> Supplied(<<KeyStep("req"), IdxStep(0)>>)]}

\* Custom marshallers whose validation function throws something else than a
\* new Error: a MarshalError of its own, a plain object with or without a
\* message, a primitive, null, undefined.
ThrownValues ==
    {Null, Undef, StrV("foo"), NumV(1),
     PlainObj(<<>>), PlainObj(<<Prop("message", StrV("bad value"))>>)}

ThrowingFunctions ==
    {FnThrowsValue("thrower", v) : v \in ThrownValues}
    \cup {FnThrows("rethrower",
                   MarshalError("other", <<KeyStep("x")>>, "Expected number, got string",
                                "number").message)}

ThrowingCustoms == {custom(m, fn) : m \in {num, any}, fn \in ThrowingFunctions}

\* Containers whose element marshallers log the elements they are given, and
\* arrays of three elements for them.
Logging(type) == custom(type, FnReturns("seen", Undef))

LoggingContainers ==
    {arr(Logging(num)),
     tup(<<Logging(num), Logging(num), Logging(num)>>),
     record(Logging(num)),
     record(Logging(str)),
     objM(<<Field("kind", Logging(str)), Field("foo", Logging(num)),
            Field("toString", Logging(any))>>)}

LoggedArrays == {ArrV(q) : q \in [1..3 -> {NumV(1), StrV("foo")}]}

\* Binary trees for the marshaller rec("tree"), up to three levels, with a
\* wrong value or an undeclared key at the innermost level.
Maybe(S) == {<<>>} \cup {<<x>> : x \in S}

TreeNode(value, left, right, wat) ==
    PlainObj(<<Prop("value", value)>>
             \o (IF left = <<>> THEN <<>> ELSE <<Prop("left", left[1])>>)
             \o (IF right = <<>> THEN <<>> ELSE <<Prop("right", right[1])>>)
             \o (IF wat THEN <<Prop("wat", StrV("hi"))>> ELSE <<>>))

Trees0 ==
    {TreeNode(v, <<>>, <<>>, w) : v \in {NumV(1), StrV("foo")}, w \in BOOLEAN} \cup {Null}

Trees1 == {TreeNode(NumV(1), l, r, FALSE) : l \in Maybe(Trees0), r \in Maybe(Trees0)}

Trees2 == {TreeNode(NumV(1), l, r, FALSE) : l \in Maybe(Trees1), r \in Maybe(Trees0)}

TreeValues == Trees0 \cup Trees1 \cup Trees2

\* Lists for the marshaller rec("list"), up to two cells.
Heads == {ArrV(<<NumV(1), StrV("foo")>>), ArrV(<<NumV(1), NumV(1)>>), ArrV(<<NumV(1)>>)}

TagProps ==
    {<<>>,
     <<Prop("tags", PlainObj(<<Prop("a", ArrV(<<NumV(1)>>))>>))>>,
     <<Prop("tags", PlainObj(<<Prop("a", ArrV(<<NumV(1), StrV("foo")>>))>>))>>}

Cons(head, tail, tags) ==
    PlainObj(<<Prop("kind", StrV("cons")), Prop("head", head), Prop("tail", tail)>> \o tags)

Lists0 == {PlainObj(<<Prop("kind", StrV("nil"))>>), PlainObj(<<Prop("kind", StrV("baz"))>>)}

Lists1 == {Cons(h, t, g) : h \in Heads, t \in Lists0, g \in TagProps}

Lists2 == {Cons(h, t, g) : h \in Heads, t \in Lists1, g \in TagProps}

ListValues == Lists0 \cup Lists1 \cup Lists2

\* A description whose kind is none of the cases of marshal's switch.
Bogus == [kind |-> "bogus"]

\* Unions of three alternatives whose validation functions tell by name the
\* position of the alternative they belong to.
Alternatives(fnName) ==
    {custom(t, fn) : t \in {num, any},
                     fn \in {FnReturns(fnName, Undef), FnThrows(fnName, fnName \o " failed")}}
    \cup {Bogus, lit(StrV("foo"))}

OrderedUnions ==
    {union(<<a, b, c>>) :
        a \in Alternatives("f1"), b \in Alternatives("f2"), c \in Alternatives("f3")}

OrderedUnionValues ==
    PrimValues \cup {PlainObj(<<Prop("toString", StrV("foo"))>>)}

\* Unions of two object alternatives with the same discriminator.
SameKindUnions ==
    {union(<<objM(<<Field("kind", lit(StrV("foo"))), Field("foo", num)>>),
             objM(<<Field("kind", lit(StrV("foo"))), Field("foo", arr(lit(NumV(1))))>>)>>)}

\* Object marshallers with a literal field whose value is "kind", and values
\* for them.
KindValuedMarshallers ==
    {objM(q) : q \in {<<Field("kind", lit(StrV("foo"))), Field("foo", lit(StrV("kind")))>>,
                       <<Field("foo", lit(StrV("kind"))), Field("kind", lit(StrV("foo")))>>,
                       <<Field("toString", str), Field("foo", lit(StrV("kind")))>>}}

KindValuedValues ==
    {PlainObj(<<Prop("kind", k), Prop("foo", f)>>) :
        k \in {StrV("foo"), StrV("baz")}, f \in {StrV("kind"), StrV("foo")}}

NoResult == [threw |-> FALSE, error |-> NoError, calls |-> <<>>]

\* The functions f given to M.rec: what f returns (by the id under which SelfOf
\* knows it), whether f calls marshal on the placeholder it is given before it
\* returns, and whether f catches what that call throws.
NoGenerator == [returns |-> "none", validates |-> FALSE, catches |-> FALSE]

Generators ==
    [returns : {"num", "str", "litfoo", "tree", "list"},
     validates : BOOLEAN, catches : BOOLEAN]

GeneratorValues == PrimValues \cup Trees0 \cup Trees1

(***************************************************************************)
(* The state machine: one call of marshal on arguments drawn in Init.      *)
(***************************************************************************)
Init ==
    /\ \E c \in Contexts : nameArg = c.name /\ pathArg = c.path
    /\ \/ obj \in Values /\ description \in SimpleMarshallers \cup CustomMarshallers
       \/ obj \in ObjectValues
            /\ description \in ObjectMarshallers \cup UnionMarshallers \cup SameKindUnions
       \/ obj \in KindValuedValues /\ description \in KindValuedMarshallers
       \/ obj \in TreeValues /\ description \in {rec("tree"), witness(rec("tree"))}
       \/ obj \in ListValues /\ description = rec("list")
       \/ obj \in OrderedUnionValues /\ description \in OrderedUnions
       \/ obj \in PrimValues /\ description \in ThrowingCustoms
       \/ obj \in ArrayValues \cup LoggedArrays \cup ObjectValues
            /\ description \in LoggingContainers
    /\ pc = "ready"
    /\ result = NoResult
    /\ previous = NoResult
    /\ generator = NoGenerator
    /\ selfWrites = 0
    /\ stack = <<>>

\* The call with the sort of the object case applied to the declared fields
\* themselves instead of a fresh array of their keys.
MarshalSortingFields ==
    /\ pc = "ready"
    /\ result' = marshal(obj, description, nameOf(nameArg), pathOf(pathArg))
    /\ pc' = "done"
    /\ description' =
            IF description.kind = "object"
            THEN LET keys == SortedKeys(description.fields)
                 IN  objM([i \in 1..Len(keys) |->
                              Field(keys[i], FieldType(description.fields, keys[i]))])
            ELSE description
    /\ UNCHANGED <<obj, nameArg, pathArg, previous, generator, selfWrites, stack>>

\* The call marshal(obj, description, name, path).
Marshal ==
    /\ pc = "ready"
    /\ result' = marshal(obj, description, nameOf(nameArg), pathOf(pathArg))
    /\ pc' = "done"
    /\ UNCHANGED <<obj, description, nameArg, pathArg, previous, generator, selfWrites, stack>>

\* A second call of marshal on the same arguments: marshal assigns to no
\* property of obj or of description, so both calls see the same arguments.
MarshalAgain ==
    /\ pc = "done"
    /\ previous' = result
    /\ result' = marshal(obj, description, nameOf(nameArg), pathOf(pathArg))
    /\ pc' = "again"
    /\ UNCHANGED <<obj, description, nameArg, pathArg, generator, selfWrites, stack>>

Next == Marshal \/ MarshalAgain

Spec == Init /\ [][Next]_vars

(***************************************************************************)
(* M.rec(f) followed by a call of marshal on the marshaller it returns.    *)
(***************************************************************************)
\* let parent = { kind: "recursive", self: undefined }, and f(parent) entered.
RecInit ==
    /\ \E c \in Contexts : nameArg = c.name /\ pathArg = c.path
    /\ obj \in GeneratorValues
    /\ description = rec("pending")
    /\ generator \in Generators
    /\ selfWrites = 0
    /\ stack = <<>>
    /\ pc = "generating"
    /\ result = NoResult
    /\ previous = NoResult

\* f calls marshal(obj, parent) while it runs; an error f does not catch leaves
\* M.rec, which then returns nothing.
GeneratorValidates ==
    /\ pc = "generating"
    /\ generator.validates
    /\ result' = marshal(obj, description, nameOf(nameArg), pathOf(pathArg))
    /\ pc' = IF result'.threw /\ ~generator.catches THEN "failed" ELSE "validated"
    /\ UNCHANGED <<obj, description, nameArg, pathArg, previous, generator, selfWrites, stack>>

\* f returns and parent.self = f(parent) is assigned; M.rec returns parent.
GeneratorReturns ==
    /\ \/ pc = "generating" /\ ~generator.validates
       \/ pc = "validated"
    /\ description' = rec(generator.returns)
    /\ selfWrites' = selfWrites + 1
    /\ pc' = "ready"
    /\ UNCHANGED <<obj, nameArg, pathArg, result, previous, generator, stack>>

RecNext == GeneratorValidates \/ GeneratorReturns \/ Marshal

SpecRec == RecInit /\ [][RecNext]_vars

(***************************************************************************)
(* marshal followed one nested call at a time: the call stack of the       *)
(* recursive function.                                                     *)
(***************************************************************************)
SubCall(o, d, path) == [obj |-> o, description |-> d, path |-> path]

\* The nested calls marshal(o, d, name, path) makes if none of them throws, in
\* the order it makes them; none when the case makes no nested call or a check
\* that precedes them fails.
SubCalls(o, d, path) ==
    CASE d.kind = "optional" ->
            IF o # Undef THEN <<SubCall(o, d.type, path)>> ELSE <<>>
      [] d.kind = "object" ->
            IF shapeError(o) # <<>> THEN <<>>
            ELSE LET keys == SortedKeys(d.fields)
                 IN  [i \in 1..Len(keys) |->
                        SubCall(Get(o, keys[i]), FieldType(d.fields, keys[i]),
                                path \o <<KeyStep(keys[i])>>)]
      [] d.kind = "array" ->
            IF IsArray(o)
            THEN [i \in 1..Len(o.elems) |->
                    SubCall(o.elems[i], d.type, path \o <<IdxStep(i - 1)>>)]
            ELSE <<>>
      [] d.kind = "tuple" ->
            IF IsArray(o) /\ tupleSizeMatches(o, d)
            THEN [i \in 1..Len(o.elems) |->
                    SubCall(o.elems[i], d.fields[i], path \o <<IdxStep(i - 1)>>)]
            ELSE <<>>
      [] d.kind = "union" -> [i \in 1..Len(d.types) |-> SubCall(o, d.types[i], path)]
      [] d.kind = "recursive" -> <<SubCall(o, SelfOf(d.id), path)>>
      [] d.kind \in {"custom", "witness"} -> <<SubCall(o, d.type, path)>>
      [] d.kind = "record" ->
            IF shapeError(o) # <<>> THEN <<>>
            ELSE [i \in 1..Len(o.own) |->
                    SubCall(o.own[i].val, d.type, path \o <<KeyStep(o.own[i].key)>>)]
      [] OTHER -> <<>>

\* A call of marshal on entry: its arguments, the nested call it makes next,
\* what it has collected so far and, once it is over, its outcome. A call that
\* makes no nested call is over at once.
Enter(c, name) ==
    LET none == SubCalls(c.obj, c.description, c.path) = <<>>
    IN  [obj |-> c.obj, description |-> c.description, path |-> c.path,
         next |-> 1, errors |-> <<>>, calls |-> <<>>, over |-> none,
         outcome |-> IF none THEN marshal(c.obj, c.description, name, c.path)
                     ELSE NoResult]

\* What a call does once its last nested call has returned (for a union: has
\* failed with a MarshalError).
Complete(f, name) ==
    LET d == f.description
        unexpected == FirstUnexpectedKey(f.obj, d.fields)
    IN  CASE d.kind = "object" ->
                IF unexpected # <<>> THEN
                    Throw(MarshalError(name, f.path,
                            "Found unexpected key: " \o unexpected[1], d.kind), f.calls)
                ELSE Return(f.calls)
          [] d.kind = "union" ->
                After(f.calls, unionFailure(f.obj, d, f.errors, name, f.path))
          [] d.kind = "custom" ->
                After(f.calls, customCheck(f.obj, d, name, f.path))
          [] OTHER -> Return(f.calls)

\* The call f after the nested call it was waiting for has ended with outcome r.
AfterSubCall(f, r, name) ==
    LET calls == f.calls \o r.calls
        isUnion == f.description.kind = "union"
        last == f.next = Len(SubCalls(f.obj, f.description, f.path))
        stop(out) == [f EXCEPT !.over = TRUE, !.outcome = out, !.calls = calls]
        more == [f EXCEPT !.next = @ + 1, !.calls = calls,
                          !.errors = IF isUnion THEN @ \o <<r.error>> ELSE @]
        goOn == IF last THEN stop(Complete(more, name)) ELSE more
    IN  IF isUnion THEN
            IF ~r.threw THEN stop(Return(calls))
            ELSE IF r.error.class # "MarshalError" THEN stop(Throw(r.error, calls))
            ELSE goOn
        ELSE IF r.threw THEN stop(Throw(r.error, calls))
        ELSE goOn

\* Values for the marshaller rec("chain").
ChainValues ==
    {PlainObj(<<>>), ObjV(ProtoNull, <<>>), Null,
     PlainObj(<<Prop("__proto__", PlainObj(<<>>))>>)}

CallsInit ==
    /\ \E c \in Contexts : nameArg = c.name /\ pathArg = c.path
    /\ \/ obj \in TreeValues /\ description = rec("tree")
       \/ obj \in ListValues /\ description = rec("list")
       \/ obj \in ChainValues /\ description = rec("chain")
    /\ pc = "running"
    /\ result = NoResult
    /\ previous = NoResult
    /\ generator = NoGenerator
    /\ selfWrites = 0
    /\ stack = <<Enter(SubCall(obj, description, pathOf(pathArg)), nameOf(nameArg))>>

\* The innermost call makes its next nested call.
EnterCall ==
    /\ pc = "running"
    /\ ~stack[Len(stack)].over
    /\ LET f == stack[Len(stack)]
       IN  stack' = Append(stack,
                Enter(SubCalls(f.obj, f.description, f.path)[f.next], nameOf(nameArg)))
    /\ UNCHANGED <<obj, description, nameArg, pathArg, pc, result, previous, generator,
                   selfWrites>>

\* The innermost call returns or throws: to the call that made it, or, for the
\* outermost call, to the caller of marshal.
LeaveCall ==
    /\ pc = "running"
    /\ stack[Len(stack)].over
    /\ LET n == Len(stack)
       IN  IF n = 1
           THEN /\ stack' = <<>>
                /\ result' = stack[1].outcome
                /\ pc' = "done"
           ELSE /\ stack' = SubSeq(stack, 1, n - 2)
                        \o <<AfterSubCall(stack[n - 1], stack[n].outcome, nameOf(nameArg))>>
                /\ UNCHANGED <<pc, result>>
    /\ UNCHANGED <<obj, description, nameArg, pathArg, previous, generator, selfWrites>>

CallsNext == EnterCall \/ LeaveCall

\* The interpreter keeps running the call until it is over.
SpecCalls == CallsInit /\ [][CallsNext]_vars /\ WF_vars(CallsNext)

(***************************************************************************)
(* Vocabulary of the properties.                                           *)
(***************************************************************************)
Done == pc = "done"

\* The root name and the path the call runs with.
CallName == IF nameArg = NotSupplied THEN "INPUT" ELSE nameArg.v
CallPath == IF pathArg = NotSupplied THEN <<>> ELSE pathArg.v

\* The call threw exactly new MarshalError(CallName, path, info, rule).
Raised(path, info, rule) ==
    /\ result.threw
    /\ result.error.class = "MarshalError"
    /\ result.error.name = CallName
    /\ result.error.path = path
    /\ result.error.info = info
    /\ result.error.rule = rule

\* Values as a JSON document gives them: every object has the plain prototype
\* and no own key named __proto__.
RECURSIVE IsPlainData(_)
IsPlainData(v) ==
    CASE v.t = "object" ->
            /\ v.proto = ProtoPlain
            /\ ~HasOwn(v, "__proto__")
            /\ \A i \in 1..Len(v.own) : IsPlainData(v.own[i].val)
      [] v.t = "array" -> \A i \in 1..Len(v.elems) : IsPlainData(v.elems[i])
      [] OTHER -> TRUE

\* The value of field k of an object value in the data model: the own property,
\* or undefined when the object has none of that name.
FieldValue(v, k) == IF HasOwn(v, k) THEN OwnValue(v, k) ELSE Undef

RECURSIVE NoCustom(_)
NoCustom(m) ==
    CASE m.kind \in {"optional", "array", "record", "witness"} -> NoCustom(m.type)
      [] m.kind = "object" -> \A i \in 1..Len(m.fields) : NoCustom(m.fields[i].type)
      [] m.kind = "tuple" -> \A i \in 1..Len(m.fields) : NoCustom(m.fields[i])
      [] m.kind = "union" -> \A i \in 1..Len(m.types) : NoCustom(m.types[i])
      [] m.kind = "custom" -> FALSE
      [] OTHER -> TRUE

\* Conformance of a value to a marshaller under the meaning the data model
\* gives each variant.
RECURSIVE Conforms(_, _)
Conforms(v, m) ==
    CASE m.kind = "literal" -> StrictEquals(v, m.value)
      [] m.kind \in {"boolean", "number", "string"} -> v.t = m.kind
      [] m.kind = "optional" -> v = Undef \/ Conforms(v, m.type)
      [] m.kind = "object" ->
            /\ v.t = "object"
            /\ \A i \in 1..Len(v.own) : Declares(m.fields, v.own[i].key)
            /\ \A i \in 1..Len(m.fields) :
                    Conforms(FieldValue(v, m.fields[i].key), m.fields[i].type)
      [] m.kind = "array" ->
            v.t = "array" /\ \A i \in 1..Len(v.elems) : Conforms(v.elems[i], m.type)
      [] m.kind = "tuple" ->
            /\ v.t = "array"
            /\ Len(v.elems) = Len(m.fields)
            /\ \A i \in 1..Len(v.elems) : Conforms(v.elems[i], m.fields[i])
      [] m.kind = "union" -> \E i \in 1..Len(m.types) : Conforms(v, m.types[i])
      [] m.kind = "record" ->
            v.t = "object" /\ \A i \in 1..Len(v.own) : Conforms(v.own[i].val, m.type)
      [] m.kind \in {"any", "unknown"} -> TRUE
      [] m.kind = "witness" -> Conforms(v, m.type)
      [] m.kind = "recursive" -> Conforms(v, SelfOf(m.id))

(***************************************************************************)
(* C1.  marshal returns normally exactly when the value conforms to the    *)
(* marshaller under the data-model meaning of each variant, and raises a   *)
(* MarshalError otherwise.  Stated here, for marshallers without custom     *)
(* validators and plain data values, as: the call returns normally exactly *)
(* when the value conforms.                                                *)
(***************************************************************************)
C1_ReturnsIffConforms ==
    (Done /\ NoCustom(description) /\ IsPlainData(obj)) =>
        (~result.threw <=> Conforms(obj, description))

(***************************************************************************)
(* C2.  Prototype pollution in the object and record cases.                *)
(***************************************************************************)
\* Every declared field of an object marshaller, or every own value under a
\* record marshaller, is valid taken by itself.
FieldsValid(v, m) ==
    IF m.kind = "object" THEN
        \A i \in 1..Len(m.fields) :
            ~marshal(Get(v, m.fields[i].key), m.fields[i].type, CallName,
                     CallPath \o <<KeyStep(m.fields[i].key)>>).threw
    ELSE
        \A i \in 1..Len(v.own) :
            ~marshal(v.own[i].val, m.type, CallName,
                     CallPath \o <<KeyStep(v.own[i].key)>>).threw

PollutionRaised ==
    /\ Raised(CallPath, "Encountered prototype pollution", description.kind)
    /\ result.calls = <<>>

\* C2 as claimed: under an object or record marshaller, every non-null,
\* non-array object whose prototype reference (an own __proto__ key, or its
\* actual prototype, a null prototype included) is not the plain base prototype
\* is rejected with "Encountered prototype pollution" at its own path.
C2_AnyNonPlainPrototypeRejected ==
    (/\ Done
     /\ description.kind \in {"object", "record"}
     /\ obj.t = "object"
     /\ (HasOwn(obj, "__proto__") \/ obj.proto # ProtoPlain))
        => PollutionRaised

\* C2 as amended: the rejection holds for an own __proto__ key and for an actual
\* prototype that is neither the plain base prototype nor null; an object with
\* a null prototype and no own __proto__ key has no __proto__ reference and is
\* never rejected as prototype pollution.
C2_PollutedPrototypeRejected ==
    (/\ Done
     /\ description.kind \in {"object", "record"}
     /\ obj.t = "object")
        => /\ (HasOwn(obj, "__proto__") \/ obj.proto \notin {ProtoPlain, ProtoNull})
                => PollutionRaised
           /\ (~HasOwn(obj, "__proto__") /\ obj.proto \in {ProtoPlain, ProtoNull})
                => ~(result.threw /\ result.error.path = CallPath
                        /\ result.error.info = "Encountered prototype pollution")

\* A record value with an array instance as prototype whose fields are all
\* valid was rejected as prototype pollution.
C2_Witness ==
    /\ Done
    /\ description.kind = "record"
    /\ obj.t = "object"
    /\ obj.proto = ProtoArray
    /\ Len(obj.own) > 0
    /\ FieldsValid(obj, description)
    /\ PollutionRaised

(***************************************************************************)
(* C3.  Under an object marshaller, a value whose declared fields are all  *)
(* valid and which has exactly one additional key k, whatever its name, is *)
(* rejected at the object's own path with rule "object" and info           *)
(* "Found unexpected key: k".  Stated for plain data values.               *)
(***************************************************************************)
UndeclaredKeys(v, m) ==
    {v.own[i].key : i \in {j \in 1..Len(v.own) : ~Declares(m.fields, v.own[j].key)}}

C3_ExtraKeyRejected ==
    (/\ Done
     /\ description.kind = "object"
     /\ obj.t = "object"
     /\ IsPlainData(obj)
     /\ FieldsValid(obj, description)
     /\ Cardinality(UndeclaredKeys(obj, description)) = 1)
        => \A k \in UndeclaredKeys(obj, description) :
                Raised(CallPath, "Found unexpected key: " \o k, "object")

(***************************************************************************)
(* C6.  A custom marshaller whose inner marshaller accepts the value and   *)
(* whose validation function returns a value other than undefined raises a *)
(* MarshalError at the current path with rule "custom" whose info is       *)
(* exactly "Custom validation function unexpectedly returned a value", so  *)
(* that the message carries the location prefix once.                      *)
(***************************************************************************)
C6_ReturnedValueInfo ==
    (/\ Done
     /\ description.kind = "custom"
     /\ ~marshal(obj, description.type, CallName, CallPath).threw
     /\ description.fn.does = "return"
     /\ description.fn.value # Undef)
        => /\ Raised(CallPath,
                     "Custom validation function unexpectedly returned a value", "custom")
           /\ result.error.message =
                "[At " \o pathStringify(CallName, CallPath)
                    \o "]: Custom validation function unexpectedly returned a value"

(***************************************************************************)
(* Discriminated unions (C4, C5).                                          *)
(***************************************************************************)
IsDiscriminatedObject(m) ==
    /\ m.kind = "object"
    /\ Declares(m.fields, "kind")
    /\ FieldType(m.fields, "kind").kind = "literal"

\* A union all of whose alternatives are object marshallers with a literal
\* "kind" field.
IsDiscriminatedUnion(d) ==
    /\ d.kind = "union"
    /\ Len(d.types) > 0
    /\ \A i \in 1..Len(d.types) : IsDiscriminatedObject(d.types[i])

DiscriminatorOf(m) == FieldType(m.fields, "kind").value

\* The alternatives whose discriminator the value's kind equals.
Matching(v, d) ==
    {i \in 1..Len(d.types) : StrictEquals(FieldValue(v, "kind"), DiscriminatorOf(d.types[i]))}

\* An object that gets past the checks opening the object case: no own
\* __proto__ key, and the plain prototype or none.
PassesObjectChecks(v) ==
    /\ v.t = "object"
    /\ ~HasOwn(v, "__proto__")
    /\ v.proto \in {ProtoPlain, ProtoNull}

\* The outcome of validating field f of the value against alternative m.
SiblingOutcome(v, m, f) ==
    marshal(Get(v, f), FieldType(m.fields, f), CallName, CallPath \o <<KeyStep(f)>>)

\* The declared fields of m other than kind that are invalid in the value.
InvalidSiblings(v, m) ==
    {f \in {m.fields[i].key : i \in 1..Len(m.fields)} \ {"kind"} :
        SiblingOutcome(v, m, f).threw}

\* The first invalid sibling in the order in which m's fields are validated.
FirstInvalidSibling(v, m) ==
    LET keys == SortedKeys(m.fields)
        bad == {i \in 1..Len(keys) : keys[i] \in InvalidSiblings(v, m)}
    IN  keys[CHOOSE i \in bad : \A j \in bad : i <= j]

RECURSIVE DiscriminatorList(_, _)
DiscriminatorList(d, i) ==
    IF i > Len(d.types) THEN ""
    ELSE DiscriminatorOf(d.types[i]).s
         \o (IF i < Len(d.types) THEN " | " \o DiscriminatorList(d, i + 1) ELSE "")

FoundKindInfo(v, d) ==
    "Unable to match against union. Found \"kind\" discriminator: ["
        \o FieldValue(v, "kind").s \o "], but needed one of ["
        \o DiscriminatorList(d, 1) \o "]"

MissingKindInfo(d) ==
    "Unable to find \"kind\" discriminator. Expecting one of ["
        \o DiscriminatorList(d, 1) \o "]"

\* C4 as claimed: in a discriminated union, an input object whose kind equals
\* the discriminator of an alternative and which has another declared field of
\* that alternative invalid, literal fields included, makes marshal raise that
\* sibling field's own error, never an error with rule "union".  Stated for
\* plain data values whose kind selects one alternative.
C4_SiblingErrorRaised ==
    (/\ Done
     /\ IsDiscriminatedUnion(description)
     /\ obj.t = "object"
     /\ IsPlainData(obj)
     /\ Cardinality(Matching(obj, description)) = 1)
        => \A i \in Matching(obj, description) :
                InvalidSiblings(obj, description.types[i]) # {} =>
                    /\ result.threw
                    /\ result.error.rule # "union"
                    /\ \E f \in InvalidSiblings(obj, description.types[i]) :
                            result.error = SiblingOutcome(obj, description.types[i], f).error

\* C4 as amended: for an input object that passes the object checks and whose
\* kind selects exactly one alternative, marshal raises the error of the first
\* invalid sibling field of that alternative in validation order when that
\* error has a rule other than "literal" or lies more than one step below the
\* union; when it is a rule-"literal" error one step below the union, marshal
\* raises the union's own discriminator message instead.
C4_ActionableSiblingErrorRaised ==
    (/\ Done
     /\ IsDiscriminatedUnion(description)
     /\ PassesObjectChecks(obj)
     /\ Cardinality(Matching(obj, description)) = 1)
        => \A i \in Matching(obj, description) :
                InvalidSiblings(obj, description.types[i]) # {} =>
                    LET m == description.types[i]
                        e == SiblingOutcome(obj, m, FirstInvalidSibling(obj, m)).error
                    IN  IF e.rule # "literal" \/ Len(e.path) # Len(CallPath) + 1
                        THEN result.threw /\ result.error = e
                        ELSE Raised(CallPath, FoundKindInfo(obj, description), "union")

\* The kind of the value selected an alternative, a sibling field with a
\* non-literal marshaller was invalid, and its own error was raised.
C4_Witness ==
    /\ Done
    /\ IsDiscriminatedUnion(description)
    /\ PassesObjectChecks(obj)
    /\ \E i \in Matching(obj, description) :
            /\ Cardinality(Matching(obj, description)) = 1
            /\ InvalidSiblings(obj, description.types[i]) = {"foo"}
            /\ result.threw
            /\ result.error = SiblingOutcome(obj, description.types[i], "foo").error
            /\ result.error.rule \in {"number", "array"}
            /\ result.error.path = CallPath \o <<KeyStep("foo")>>

\* C5 as claimed: in a discriminated union with discriminators d1..dn, an input
\* object whose kind is none of them is rejected at the union's own path with
\* rule "union" and the "Found kind discriminator" message, and an input object
\* without a kind key with the "Unable to find kind discriminator" message.
C5_DiscriminatorMessages ==
    (/\ Done
     /\ IsDiscriminatedUnion(description)
     /\ obj.t = "object")
        => /\ (HasOwn(obj, "kind") /\ Matching(obj, description) = {})
                => Raised(CallPath, FoundKindInfo(obj, description), "union")
           /\ ~HasOwn(obj, "kind")
                => Raised(CallPath, MissingKindInfo(description), "union")

\* C5 as amended: the same, for an input object that passes the object checks
\* (no own __proto__ key, and the plain prototype or none).
C5_DiscriminatorMessagesForAcceptedObjects ==
    (/\ Done
     /\ IsDiscriminatedUnion(description)
     /\ PassesObjectChecks(obj))
        => /\ (HasOwn(obj, "kind") /\ Matching(obj, description) = {})
                => Raised(CallPath, FoundKindInfo(obj, description), "union")
           /\ ~HasOwn(obj, "kind")
                => Raised(CallPath, MissingKindInfo(description), "union")

\* A plain object with kind "baz" was rejected by a union of the alternatives
\* "foo" and "bar" with the message naming all three.
C5_Witness ==
    /\ Done
    /\ IsDiscriminatedUnion(description)
    /\ PassesObjectChecks(obj)
    /\ FieldValue(obj, "kind") = StrV("baz")
    /\ Len(obj.own) > 1
    /\ Raised(CallPath,
              "Unable to match against union. Found \"kind\" discriminator: [baz], but needed one of [foo | bar]",
              "union")

(***************************************************************************)
(* Custom marshallers (C7).                                                *)
(***************************************************************************)
\* The outcome of validating the value against the inner marshaller of the
\* custom marshaller of the call, at the same name and path.
InnerOutcome == marshal(obj, description.type, CallName, CallPath)

\* The record of one invocation of the validation function of the custom
\* marshaller of the call on the value.
OwnCall == [fn |-> description.fn.name, arg |-> obj]

\* C7: for a custom marshaller, a failure of the inner marshaller propagates
\* unchanged and the validation function is not invoked; when the inner
\* marshaller accepts, the function is invoked exactly once, on the value and
\* after the inner validation, and if it throws an error with message m,
\* marshal raises a MarshalError at the current path with rule "custom" and
\* info m.
C7_CustomInnerFirstThenFunction ==
    (Done /\ description.kind = "custom") =>
        IF InnerOutcome.threw
        THEN /\ result = InnerOutcome
             /\ \A i \in 1..Len(result.calls) : result.calls[i] # OwnCall
        ELSE /\ result.calls = InnerOutcome.calls \o <<OwnCall>>
             /\ description.fn.does = "throw"
                    => Raised(CallPath, description.fn.message, "custom")
             /\ (description.fn.does = "return" /\ description.fn.value = Undef)
                    => ~result.threw

\* A nested custom marshaller below a supplied path: the inner function ran
\* first and returned, the outer one ran next and threw, and the error was
\* raised with rule "custom" at the supplied path.
C7_Witness ==
    /\ Done
    /\ description.kind = "custom"
    /\ description.type.kind = "custom"
    /\ ~InnerOutcome.threw
    /\ Len(result.calls) = 2
    /\ result.calls[2] = OwnCall
    /\ CallPath # <<>>
    /\ Raised(CallPath, "bad value", "custom")

(***************************************************************************)
(* Tuples (C8).                                                            *)
(***************************************************************************)
\* C8: a tuple marshaller of arity N applied to an array of length M # N
\* raises a MarshalError at the tuple's own path with rule "tuple" and info
\* "Invalid tuple size: Expected N, got M", whatever the elements are and
\* without validating any of them; the zero-arity tuple accepts the empty
\* array and rejects every non-empty one.
C8_TupleSizeMismatch ==
    (Done /\ description.kind = "tuple" /\ IsArray(obj)) =>
        /\ Len(obj.elems) # Len(description.fields) =>
                /\ Raised(CallPath,
                          "Invalid tuple size: Expected " \o ToString(Len(description.fields))
                              \o ", got " \o ToString(Len(obj.elems)),
                          "tuple")
                /\ result.calls = <<>>
        /\ description.fields = <<>> => (result.threw <=> obj.elems # <<>>)

\* An array longer than the tuple, whose elements do not fit the element
\* marshallers either, was rejected for its size.
C8_Witness ==
    /\ Done
    /\ description.kind = "tuple"
    /\ IsArray(obj)
    /\ Len(description.fields) = 1
    /\ Len(obj.elems) = 2
    /\ marshal(obj.elems[1], description.fields[1], CallName, CallPath \o <<IdxStep(0)>>).threw
    /\ Raised(CallPath, "Invalid tuple size: Expected 1, got 2", "tuple")

(***************************************************************************)
(* Missing fields (C9).                                                    *)
(***************************************************************************)
\* The declared fields of m validated before field f.
ValidatedBefore(m, f) ==
    LET keys == SortedKeys(m.fields)
        at == CHOOSE i \in 1..Len(keys) : keys[i] = f
    IN  {keys[i] : i \in 1..(at - 1)}

\* C9: an object marshaller applied to a plain object that lacks a declared
\* field f whose marshaller is boolean, number or string, all fields validated
\* before f being valid, raises a MarshalError whose path is the object's path
\* followed by f, whose rule is the tag of f's marshaller and whose info is
\* "Expected <tag>, got undefined".
C9_MissingFieldGotUndefined ==
    (/\ Done
     /\ description.kind = "object"
     /\ obj.t = "object"
     /\ IsPlainData(obj))
        => \A f \in {description.fields[i].key : i \in 1..Len(description.fields)} :
                (/\ ~HasOwn(obj, f)
                 /\ FieldType(description.fields, f).kind \in {"boolean", "number", "string"}
                 /\ \A g \in ValidatedBefore(description, f) :
                        ~SiblingOutcome(obj, description, g).threw)
                    => Raised(CallPath \o <<KeyStep(f)>>,
                              "Expected " \o FieldType(description.fields, f).kind
                                  \o ", got undefined",
                              FieldType(description.fields, f).kind)

(***************************************************************************)
(* Error messages (C10).                                                   *)
(***************************************************************************)
RECURSIVE RenderedSteps(_)
RenderedSteps(path) ==
    IF path = <<>> THEN ""
    ELSE (IF Head(path).isKey THEN "." \o Head(path).key
          ELSE "[" \o ToString(Head(path).idx) \o "]")
         \o RenderedSteps(Tail(path))

\* C10: every MarshalError raised has message "[At " + name + rendered steps
\* + "]: " + info, a string step s rendered as ".s" and a numeric step i as
\* "[i]", in path order; the name is the root name the caller supplied, or
\* "INPUT" when none was supplied.
C10_MessageFormat ==
    (Done /\ result.threw /\ result.error.class = "MarshalError") =>
        /\ result.error.name = CallName
        /\ nameArg = NotSupplied => result.error.name = "INPUT"
        /\ result.error.message =
                "[At " \o result.error.name \o RenderedSteps(result.error.path)
                    \o "]: " \o result.error.info

\* An error raised under a supplied name, below a supplied path and one
\* index further down: its path holds string and numeric steps.
C10_Witness ==
    /\ Done
    /\ result.threw
    /\ result.error.class = "MarshalError"
    /\ nameArg = Supplied("body")
    /\ result.error.path = <<KeyStep("req"), IdxStep(0), IdxStep(1)>>
    /\ result.error.message = "[At body.req[0][1]]: Expected number, got string"

(***************************************************************************)
(* Error paths (C11).                                                      *)
(***************************************************************************)
Below(step, sites) == {<<step>> \o site : site \in sites}

\* The places of a value at which it departs from a marshaller, each as the
\* chain of field names and indices leading to it from the value: one step per
\* object field, record key, array index or tuple index, none for an optional,
\* recursive, witness, custom or union node.
RECURSIVE Sites(_, _)
Sites(v, m) ==
    CASE m.kind = "literal" -> IF v = m.value THEN {} ELSE {<<>>}
      [] m.kind \in {"boolean", "number", "string"} -> IF v.t = m.kind THEN {} ELSE {<<>>}
      [] m.kind \in {"any", "unknown"} -> {}
      [] m.kind = "optional" -> IF v = Undef THEN {} ELSE Sites(v, m.type)
      [] m.kind = "witness" -> Sites(v, m.type)
      [] m.kind = "recursive" -> Sites(v, SelfOf(m.id))
      [] m.kind = "custom" ->
            Sites(v, m.type)
            \cup (IF m.fn.does = "return" /\ m.fn.value = Undef THEN {} ELSE {<<>>})
      [] m.kind = "array" ->
            IF v.t # "array" THEN {<<>>}
            ELSE UNION {Below(IdxStep(i - 1), Sites(v.elems[i], m.type)) : i \in 1..Len(v.elems)}
      [] m.kind = "tuple" ->
            IF v.t # "array" \/ Len(v.elems) # Len(m.fields) THEN {<<>>}
            ELSE UNION {Below(IdxStep(i - 1), Sites(v.elems[i], m.fields[i])) :
                            i \in 1..Len(v.elems)}
      [] m.kind = "object" ->
            IF v.t # "object" THEN {<<>>}
            ELSE (IF ~PassesObjectChecks(v) \/ UndeclaredKeys(v, m) # {} THEN {<<>>} ELSE {})
                 \cup UNION {Below(KeyStep(m.fields[i].key),
                                   Sites(FieldValue(v, m.fields[i].key), m.fields[i].type)) :
                                i \in 1..Len(m.fields)}
      [] m.kind = "record" ->
            IF v.t # "object" THEN {<<>>}
            ELSE (IF ~PassesObjectChecks(v) THEN {<<>>} ELSE {})
                 \cup UNION {Below(KeyStep(v.own[i].key), Sites(v.own[i].val, m.type)) :
                                i \in 1..Len(v.own)}
      [] m.kind = "union" ->
            IF \E i \in 1..Len(m.types) : Sites(v, m.types[i]) = {} THEN {}
            ELSE {<<>>} \cup UNION {Sites(v, m.types[i]) : i \in 1..Len(m.types)}
      [] OTHER -> {<<>>}

\* C11: the path of a raised MarshalError is the path the call was given
\* followed by the chain of field names and indices leading from the root value
\* to a place where the value departs from the marshaller; under a recursive
\* marshaller an error is raised exactly when there is such a place.
C11_ErrorPathIsChainToFailingSite ==
    Done =>
        /\ (result.threw /\ result.error.class = "MarshalError")
                => \E site \in Sites(obj, description) : result.error.path = CallPath \o site
        /\ description.kind = "recursive"
                => (result.threw <=> Sites(obj, description) # {})

\* The tree of the repository's test: an undeclared key inside root.left.right
\* was reported at path [left, right] below the path of the call.
C11_Witness ==
    /\ Done
    /\ description = rec("tree")
    /\ CallPath # <<>>
    /\ obj.t = "object"
    /\ HasOwn(obj, "left")
    /\ OwnValue(obj, "left").t = "object"
    /\ HasOwn(OwnValue(obj, "left"), "right")
    /\ Sites(obj, description) = {<<KeyStep("left"), KeyStep("right")>>}
    /\ Raised(CallPath \o <<KeyStep("left"), KeyStep("right")>>,
              "Found unexpected key: wat", "object")

(***************************************************************************)
(* Unions: order of the attempts (C12).                                    *)
(***************************************************************************)
\* The outcome of validating the value against alternative i of the union of
\* the call, at the name and path of the call.
AlternativeOutcome(i) == marshal(obj, description.types[i], CallName, CallPath)

Rejects(i) ==
    AlternativeOutcome(i).threw /\ AlternativeOutcome(i).error.class = "MarshalError"

\* The validation function calls of alternatives 1..i, in that order.
RECURSIVE CallsUpTo(_)
CallsUpTo(i) == IF i = 0 THEN <<>> ELSE CallsUpTo(i - 1) \o AlternativeOutcome(i).calls

\* C12: in a union the alternatives are attempted in declared order against
\* the same value; when alternative i is the first to accept, every earlier one
\* having been rejected, marshal returns normally, the validation functions
\* invoked are exactly those of alternatives 1..i in that order, and none of a
\* later alternative is invoked.
C12_FirstAcceptingAlternativeWins ==
    (Done /\ description.kind = "union") =>
        \A i \in 1..Len(description.types) :
            (~AlternativeOutcome(i).threw /\ \A j \in 1..(i - 1) : Rejects(j))
                => /\ ~result.threw
                   /\ result.calls = CallsUpTo(i)

\* The first alternative ran its function and was rejected, the second ran its
\* function and accepted, and the function of the third, which would have been
\* invoked on this value, was not.
C12_Witness ==
    /\ Done
    /\ description \in OrderedUnions
    /\ description.types[1].kind = "custom"
    /\ description.types[2].kind = "custom"
    /\ description.types[3] = custom(any, FnReturns("f3", Undef))
    /\ ~result.threw
    /\ result.calls = <<[fn |-> "f1", arg |-> obj], [fn |-> "f2", arg |-> obj]>>

(***************************************************************************)
(* Unions without a discriminator (C13).                                   *)
(***************************************************************************)
RECURSIVE TagList(_, _)
TagList(types, i) ==
    IF i > Len(types) THEN ""
    ELSE types[i].kind \o (IF i < Len(types) THEN " | " \o TagList(types, i + 1) ELSE "")

OptionalInners == {num, lit(StrV("foo"))} \cup {custom(num, fn) : fn \in Functions}
WitnessInners == {num, record(str), rec("tree")}

\* The outcome of validating the value of the call against S at the name and
\* path of the call.
OutcomeAgainst(S) == marshal(obj, S, CallName, CallPath)

\* C15: marshal(V, witness(S)) and marshal(V, M.rec(() => S)) have exactly the
\* outcome of marshal(V, S) at the same path; marshal(V, optional(S)) returns
\* normally when V is undefined and otherwise has exactly the outcome of
\* marshal(V, S), so that null is rejected with the error of S.
C15_WrappersTransparent ==
    Done =>
        /\ \A S \in WitnessInners :
                description = witness(S) => result = OutcomeAgainst(S)
        /\ description.kind = "recursive" => result = OutcomeAgainst(SelfOf(description.id))
        /\ \A S \in OptionalInners :
                description = opt(S) =>
                    IF obj = Undef THEN result = Return(<<>>)
                    ELSE result = OutcomeAgainst(S)
        /\ (description = opt(num) /\ obj = Null)
                => Raised(CallPath, "Expected number, got object", "number")

\* null under an optional number was rejected with the number marshaller's
\* error at the path of the call.
C15_Witness ==
    /\ Done
    /\ description = opt(num)
    /\ obj = Null
    /\ CallPath # <<>>
    /\ Raised(CallPath, "Expected number, got object", "number")
    /\ result = OutcomeAgainst(num)

(***************************************************************************)
(* Order of the declared fields (C16, C17, C18).                           *)
(***************************************************************************)
DeclaredKeys(m) == {m.fields[i].key : i \in 1..Len(m.fields)}

\* The declared fields of m that are invalid in the value, kind included.
InvalidFields(v, m) == {f \in DeclaredKeys(m) : SiblingOutcome(v, m, f).threw}

\* The place of a declared field in the stated order: the literal field named
\* kind, then the other literal fields, then the fields of any other marshaller.
StatedRank(m, f) ==
    IF FieldType(m.fields, f).kind # "literal" THEN 2
    ELSE IF f = "kind" THEN 0
    ELSE 1

\* C16: the declared fields of an object marshaller are validated in this
\* order: the literal field named kind, then the other literal fields, then
\* the non-literal fields; so the error raised for a plain object with invalid
\* declared fields is that of an invalid field of the least rank, and when the
\* literal kind field and another literal field are both invalid it is the
\* error of kind, whatever the order of declaration.
C16_KindLiteralValidatedFirst ==
    (/\ Done
     /\ description.kind = "object"
     /\ obj.t = "object"
     /\ IsPlainData(obj)
     /\ InvalidFields(obj, description) # {})
        => \E f \in InvalidFields(obj, description) :
                /\ result.threw
                /\ result.error = SiblingOutcome(obj, description, f).error
                /\ \A g \in InvalidFields(obj, description) :
                        StatedRank(description, f) <= StatedRank(description, g)

\* The object marshaller of the call with its fields declared in the order p.
Redeclared(p) == objM([i \in 1..Len(description.fields) |-> description.fields[p[i]]])

\* C17: the order of the declared fields decides which error is reported, never
\* whether the value is accepted: under every order of declaration of the same
\* fields marshal returns normally on the value, or under every one it throws.
C17_OrderNeverChangesAcceptance ==
    (Done /\ description.kind = "object") =>
        \A p \in Permutations(1..Len(description.fields)) :
            OutcomeAgainst(Redeclared(p)).threw = result.threw

\* Two declared fields were invalid, and declaring them the other way round
\* changes the error raised but not the rejection.
C17_Witness ==
    /\ Done
    /\ description.kind = "object"
    /\ obj.t = "object"
    /\ IsPlainData(obj)
    /\ Cardinality(InvalidFields(obj, description)) = 2
    /\ result.threw
    /\ \E p \in Permutations(1..Len(description.fields)) :
            /\ OutcomeAgainst(Redeclared(p)).threw
            /\ OutcomeAgainst(Redeclared(p)).error # result.error

Collected(i) == AlternativeOutcome(i).error

AllRejected == \A i \in 1..Len(description.types) : Rejects(i)

\* A rule-"literal" mismatch of the kind field one step below the union.
KindMismatch(e) == e.rule = "literal" /\ e.path = CallPath \o <<KeyStep("kind")>>

\* A rule-"literal" mismatch of any field one step below the union.
ShallowLiteralMismatch(e) == e.rule = "literal" /\ Len(e.path) = Len(CallPath) + 1

\* A failure with a rule other than "literal" or a path more than one step
\* below the union.
Reraisable(e) == e.rule # "literal" \/ Len(e.path) > Len(CallPath) + 1

\* The union's own message about the discriminator was raised.
DiscriminatorMessageRaised ==
    IF HasOwn(obj, "kind")
    THEN Raised(CallPath, FoundKindInfo(obj, description), "union")
    ELSE Raised(CallPath, MissingKindInfo(description), "union")

\* The first collected failure that can be raised again was raised, verbatim.
FirstReraisableRaised ==
    \E i \in 1..Len(description.types) :
        /\ Reraisable(Collected(i))
        /\ \A j \in 1..(i - 1) : ~Reraisable(Collected(j))
        /\ result.threw
        /\ result.error = Collected(i)

\* C19 as claimed: in a discriminated union all of whose alternatives fail, the
\* discriminator message is raised if and only if every collected failure is a
\* rule-"literal" mismatch of the kind field one step below the union's path;
\* otherwise the first collected failure with another rule or a deeper path is
\* raised again verbatim.
C19_DiscriminatorMessageIffKindMismatches ==
    (/\ Done
     /\ IsDiscriminatedUnion(description)
     /\ obj.t = "object"
     /\ AllRejected)
        => IF \A i \in 1..Len(description.types) : KindMismatch(Collected(i))
           THEN DiscriminatorMessageRaised
           ELSE FirstReraisableRaised /\ ~DiscriminatorMessageRaised

\* C19 as amended: the discriminator message is raised if and only if every
\* collected failure is a rule-"literal" mismatch, of the kind field or of any
\* other literal field, one step below the union's path; otherwise the first
\* collected failure with another rule or a deeper path is raised again
\* verbatim.
C19_DiscriminatorMessageIffShallowLiterals ==
    (/\ Done
     /\ IsDiscriminatedUnion(description)
     /\ obj.t = "object"
     /\ AllRejected)
        => IF \A i \in 1..Len(description.types) : ShallowLiteralMismatch(Collected(i))
           THEN DiscriminatorMessageRaised
           ELSE FirstReraisableRaised /\ ~DiscriminatorMessageRaised

\* The first alternative failed on its discriminator, the second on a field
\* that is not a literal, and the failure of the second was raised.
C19_Witness ==
    /\ Done
    /\ IsDiscriminatedUnion(description)
    /\ PassesObjectChecks(obj)
    /\ AllRejected
    /\ KindMismatch(Collected(1))
    /\ Reraisable(Collected(2))
    /\ Collected(2).path = CallPath \o <<KeyStep("foo")>>
    /\ result.threw
    /\ result.error = Collected(2)

(***************************************************************************)
(* Unions: failures that are not MarshalErrors (C20).                      *)
(***************************************************************************)
\* C20: when the attempt of an alternative of a union raises a failure that is
\* not a MarshalError, every earlier alternative having been rejected, that
\* failure leaves marshal unchanged: no later alternative is attempted, no
\* union error is produced, and marshal does not return normally even if a
\* later alternative accepts the value.
C20_OtherFailuresPropagate ==
    (Done /\ description.kind = "union") =>
        \A i \in 1..Len(description.types) :
            (/\ AlternativeOutcome(i).threw
             /\ AlternativeOutcome(i).error.class # "MarshalError"
             /\ \A j \in 1..(i - 1) : Rejects(j))
                => /\ result.threw
                   /\ result.error = AlternativeOutcome(i).error
                   /\ result.calls = CallsUpTo(i)

\* The first alternative ran its function and was rejected, the second had an
\* unknown kind, and the third, which accepts the value, was not attempted.
C20_Witness ==
    /\ Done
    /\ description \in OrderedUnions
    /\ description.types[2] = Bogus
    /\ description.types[3] = custom(any, FnReturns("f3", Undef))
    /\ ~AlternativeOutcome(3).threw
    /\ result.threw
    /\ result.error.class = "Error"
    /\ result.error.message
            = "Reached unexpected type description \"bogus\" at " \o CallName \o ".req[0]"
    /\ result.calls = <<[fn |-> "f1", arg |-> obj]>>

(***************************************************************************)
(* Custom marshallers: what the validation function throws (C21).          *)
(***************************************************************************)
\* The message property of what the validation function of the call throws:
\* the message of an Error, the own message of a plain object, and undefined
\* for a value that has none.
ThrownMessage ==
    IF description.fn.does = "throw" THEN StrV(description.fn.message)
    ELSE IF description.fn.value.t = "object" /\ HasOwn(description.fn.value, "message")
    THEN OwnValue(description.fn.value, "message")
    ELSE Undef

\* C21: whatever the validation function of a custom marshaller throws, an
\* Error, a MarshalError, an object that is not an Error, a primitive, null or
\* undefined, marshal raises a MarshalError at the current path with rule
\* "custom" whose info is the message of the thrown value, verbatim; no other
\* failure leaves the custom case.
C21_AnyThrownValueWrapped ==
    (/\ Done
     /\ description.kind = "custom"
     /\ ~InnerOutcome.threw
     /\ description.fn.does \in {"throw", "throwValue"})
        => /\ result.threw
           /\ result.error.class = "MarshalError"
           /\ result.error.name = CallName
           /\ result.error.path = CallPath
           /\ result.error.rule = "custom"
           /\ IF ThrownMessage.t = "string"
              THEN result.error.infoType = "string" /\ result.error.info = ThrownMessage.s
              ELSE result.error.infoType = "undefined"

(***************************************************************************)
(* M.rec: linking the placeholder (C22).                                   *)
(***************************************************************************)
\* A call of marshal on the placeholder, by f or by the caller of M.rec.
ValidationCall == GeneratorValidates \/ Marshal

\* The placeholder's self reference is set.
Linked == SelfOf(description.id) # NoDescription

\* C22: for the marshaller produced by M.rec(f), the self reference of the
\* placeholder is set exactly once, to what f returned, and no call of marshal
\* dispatches on the placeholder while its self reference is unset, calls made
\* on the placeholder while f runs included.
C22_PlaceholderLinkedBeforeUse ==
    /\ [](selfWrites <= 1)
    /\ [](pc \in {"ready", "done"}
            => selfWrites = 1 /\ description = rec(generator.returns))
    /\ [][ValidationCall => Linked]_vars

(***************************************************************************)
(* Fail-fast validation of containers (C23).                               *)
(***************************************************************************)
Child(step, val, type) == [step |-> step, val |-> val, type |-> type]

\* The parts of the value that the marshaller of the call validates one after
\* the other, once the checks on the container itself have passed.
Children ==
    CASE description.kind = "array" /\ IsArray(obj) ->
            [i \in 1..Len(obj.elems) |-> Child(IdxStep(i - 1), obj.elems[i], description.type)]
      [] description.kind = "tuple" /\ IsArray(obj)
            /\ Len(obj.elems) = Len(description.fields) ->
            [i \in 1..Len(obj.elems) |->
                Child(IdxStep(i - 1), obj.elems[i], description.fields[i])]
      [] description.kind = "record" /\ PassesObjectChecks(obj) ->
            [i \in 1..Len(obj.own) |->
                Child(KeyStep(obj.own[i].key), obj.own[i].val, description.type)]
      [] description.kind = "object" /\ PassesObjectChecks(obj) ->
            LET keys == SortedKeys(description.fields)
            IN  [i \in 1..Len(keys) |->
                    Child(KeyStep(keys[i]), Get(obj, keys[i]),
                          FieldType(description.fields, keys[i]))]
      [] OTHER -> <<>>

ChildOutcome(i) ==
    marshal(Children[i].val, Children[i].type, CallName, CallPath \o <<Children[i].step>>)

BadChildren == {i \in 1..Len(Children) : ChildOutcome(i).threw}

FirstBadChild == CHOOSE i \in BadChildren : \A j \in BadChildren : i <= j

RECURSIVE ChildCallsUpTo(_)
ChildCallsUpTo(i) == IF i = 0 THEN <<>> ELSE ChildCallsUpTo(i - 1) \o ChildOutcome(i).calls

\* C23: outside a union validation is fail-fast: in an object, array, tuple or
\* record, marshal raises the error of the first field or element that does not
\* conform, in an array the one of lowest index, and validates no later field
\* or element: the validation functions invoked are those of the parts up to
\* that one and no others.
C23_FailFast ==
    (Done /\ BadChildren # {}) =>
        /\ result.threw
        /\ result.error = ChildOutcome(FirstBadChild).error
        /\ result.calls = ChildCallsUpTo(FirstBadChild)

\* An array whose first element conforms and whose second and third do not:
\* the error is that of index 1 and only the first element reached its
\* validation function.
C23_Witness ==
    /\ Done
    /\ description = arr(Logging(num))
    /\ obj = ArrV(<<NumV(1), StrV("foo"), StrV("foo")>>)
    /\ BadChildren = {2, 3}
    /\ Raised(CallPath \o <<IdxStep(1)>>, "Expected number, got string", "number")
    /\ result.calls = <<[fn |-> "seen", arg |-> NumV(1)]>>

(***************************************************************************)
(* Termination over recursive marshallers (C24).                           *)
(***************************************************************************)
\* The placeholders a marshaller refers to, and those it refers to without an
\* object field, an array element, a tuple element or a record value in between.
RECURSIVE Placeholders(_, _), Unguarded(_, _)
Placeholders(d, seen) ==
    CASE d.kind \in {"optional", "array", "record", "custom", "witness"} ->
            Placeholders(d.type, seen)
      [] d.kind = "object" ->
            UNION {Placeholders(d.fields[i].type, seen) : i \in 1..Len(d.fields)}
      [] d.kind = "tuple" ->
            UNION {Placeholders(d.fields[i], seen) : i \in 1..Len(d.fields)}
      [] d.kind = "union" ->
            UNION {Placeholders(d.types[i], seen) : i \in 1..Len(d.types)}
      [] d.kind = "recursive" ->
            {d.id} \cup (IF d.id \in seen THEN {}
                         ELSE Placeholders(SelfOf(d.id), seen \cup {d.id}))
      [] OTHER -> {}

Unguarded(d, seen) ==
    CASE d.kind \in {"optional", "custom", "witness"} -> Unguarded(d.type, seen)
      [] d.kind = "union" ->
            UNION {Unguarded(d.types[i], seen) : i \in 1..Len(d.types)}
      [] d.kind = "recursive" ->
            {d.id} \cup (IF d.id \in seen THEN {}
                         ELSE Unguarded(SelfOf(d.id), seen \cup {d.id}))
      [] OTHER -> {}

GuardedSchema ==
    \A id \in Placeholders(description, {}) : id \notin Unguarded(SelfOf(id), {id})

\* How deep a value nests: 0 for a value without parts.
RECURSIVE Height(_)
Height(v) ==
    LET Max(S) == IF S = {} THEN 0 ELSE CHOOSE n \in S : \A m \in S : m <= n
    IN  CASE v.t = "array" -> 1 + Max({Height(v.elems[i]) : i \in 1..Len(v.elems)})
          [] v.t = "object" -> 1 + Max({Height(v.own[i].val) : i \in 1..Len(v.own)})
          [] OTHER -> 0

\* The calls under way that dispatch on a placeholder.
PlaceholderSteps == {i \in 1..Len(stack) : stack[i].description.kind = "recursive"}

\* C24: for a finite acyclic value and a marshaller in which every reference
\* to a recursive placeholder lies beneath an object field, an array element, a
\* tuple element or a record value, marshal terminates (returns or raises), and
\* each step through the placeholder comes after a descent into a strictly
\* smaller part of the value: of two nested calls on a placeholder the inner
\* one is given a value that nests strictly less deep.
C24_GuardedRecursionTerminates ==
    /\ [](GuardedSchema =>
            \A i, j \in PlaceholderSteps : i < j => Height(stack[j].obj) < Height(stack[i].obj))
    /\ (GuardedSchema => <>(pc = "done"))

(***************************************************************************)
(* What every escaping MarshalError carries (C25).                         *)
(***************************************************************************)
\* The tags of the marshaller nodes that validate the part of a value found by
\* following `steps` from the value marshaller m validates: a field name leads
\* into an object field or a record value, an index into an array or tuple
\* element; optional, witness, custom, recursive and union nodes validate the
\* same part as what they wrap.
RECURSIVE TagsAt(_, _)
TagsAt(m, steps) ==
    (IF steps = <<>> THEN {m.kind} ELSE {})
    \cup
    CASE m.kind \in {"optional", "witness", "custom"} -> TagsAt(m.type, steps)
      [] m.kind = "recursive" -> TagsAt(SelfOf(m.id), steps)
      [] m.kind = "union" -> UNION {TagsAt(m.types[i], steps) : i \in 1..Len(m.types)}
      [] m.kind = "object" /\ steps # <<>> ->
            IF Head(steps).isKey /\ Declares(m.fields, Head(steps).key)
            THEN TagsAt(FieldType(m.fields, Head(steps).key), Tail(steps))
            ELSE {}
      [] m.kind = "record" /\ steps # <<>> ->
            IF Head(steps).isKey THEN TagsAt(m.type, Tail(steps)) ELSE {}
      [] m.kind = "array" /\ steps # <<>> ->
            IF Head(steps).isKey THEN {} ELSE TagsAt(m.type, Tail(steps))
      [] m.kind = "tuple" /\ steps # <<>> ->
            IF ~Head(steps).isKey /\ Head(steps).idx < Len(m.fields)
            THEN TagsAt(m.fields[Head(steps).idx + 1], Tail(steps))
            ELSE {}
      [] OTHER -> {}

TransparentTags == {"any", "unknown", "optional", "recursive", "witness"}

EscapedMarshalError ==
    pc \in {"done", "again"} /\ result.threw /\ result.error.class = "MarshalError"

\* C25: every MarshalError that escapes marshal(V, S, name, path), raised
\* directly, re-raised from a union branch or made by wrapping the failure of a
\* custom function, carries the name the caller gave ("INPUT" by default), a
\* path that starts with the path the caller gave, and as rule the tag of the
\* marshaller node at which it was raised, which is never any, unknown,
\* optional, recursive or witness; the path the caller gave is never modified.
C25_ErrorCarriesCallContext ==
    /\ [](EscapedMarshalError =>
            /\ result.error.name = CallName
            /\ Len(result.error.path) >= Len(CallPath)
            /\ SubSeq(result.error.path, 1, Len(CallPath)) = CallPath
            /\ result.error.rule \in
                    TagsAt(description,
                           SubSeq(result.error.path, Len(CallPath) + 1,
                                  Len(result.error.path)))
                    \ TransparentTags)
    /\ [][pathArg' = pathArg]_vars

\* A call given a name and a path, on a union none of whose alternatives
\* accepts the value: the error re-raised from a branch has the given name, the
\* given path followed by the field, and the rule of the field's marshaller.
C25_Witness ==
    /\ pc = "done"
    /\ description.kind = "union"
    /\ nameArg = Supplied("body")
    /\ CallPath # <<>>
    /\ result.threw
    /\ result.error.class = "MarshalError"
    /\ result.error.name = "body"
    /\ result.error.rule \notin {"union", "object"}
    /\ Len(result.error.path) = Len(CallPath) + 1

====
